---- MODULE Spec2Model ----
(***************************************************************************)
(* Model of storage/watchable_store.go: the watchableStore facade, its     *)
(* synced/unsynced watcher registry, the inline notifier (notify) and the  *)
(* periodic catch-up pass (syncWatchers).                                  *)
(*                                                                         *)
(* Keys are byte strings, modelled as sequences of small naturals.  The    *)
(* inner MVCC store (storage/kvstore.go) is not part of the sources; the   *)
(* little of it the facade relies on (revision assignment, getChanges,     *)
(* the revision-ordered backend bucket, compaction floor) is modelled      *)
(* from the specification's description of it.                             *)
(***************************************************************************)
EXTENDS Integers, Sequences, FiniteSets, TLC

\* ------------------------------------------------------------------ bounds
\* Revision of the store when the watchable store is constructed over it: the
\* backend already holds one put, of key <<1>>, made at this revision.
InitRev == 2
\* Number of commits (revisions) made in one run.
MaxCommits == 2
\* Capacity of a stream's channel in the model (chanBufLen is 1024 in the code).
ChanCap == 1
\* Number of watchers registered in one run.
MaxWatchers == 2
\* Number of changes one transaction may make.
MaxTxnOps == 2

\* Highest revision the store reaches.
MaxRev == InitRev + MaxCommits

\* Keys written by Put/DeleteRange, in the store's (lexicographic) key order.
KeyOrder == << <<1>>, <<1, 2>> >>
WriteKeys == {KeyOrder[i] : i \in 1..Len(KeyOrder)}
\* What a watcher may be registered on: <<key, prefix>>.
WatchTargets == {<< <<>>, TRUE >>, << <<1>>, FALSE >>, << <<1>>, TRUE >>}
\* Channels of the watch streams (NewWatchStream makes one channel per stream).
Chans == {1}
\* The id the inner store gives the open transaction, and the ids a caller
\* may pass to TxnEnd.
OpenTxnID == 1
TxnIDs == {1, 2}

VARIABLES
    currentRev,      \* s.store.currentRev.main
    compactMainRev,  \* s.store.compactMainRev
    backend,         \* the key bucket: records in revision order
    changes,         \* s.store.changes, what getChanges() returns next
    txnID,           \* id of the open transaction, 0 when none
    mu,              \* s.mu: "free", or "txn" while TxnBegin..TxnEnd holds it
    watchers,        \* every *watcher allocated by watch(), by identity
    unsynced,        \* s.unsynced
    synced,          \* s.synced: key -> set of watchers, only for present keys
    chan,            \* per channel: the WatchResponses waiting in it
    sent,            \* per watcher: every event enqueued for it so far
    cancelled,       \* per watcher: its cancel handle has run
    panicked,        \* the process aborted in panic / log.Panicf
    closing,         \* Close(): "open", "stopping" (stopc closed), "closed"
    loop,            \* where syncWatchersLoop is: "lock", "select", "exited"
    last             \* the operation that produced this state

vars == <<currentRev, compactMainRev, backend, changes, txnID, mu, watchers,
          unsynced, synced, chan, sent, cancelled, panicked, closing, loop, last>>

\* ------------------------------------------------------------------ helpers
Min(S) == CHOOSE x \in S : \A y \in S : x <= y
Max(S) == CHOOSE x \in S : \A y \in S : x >= y

\* The elements of a sequence.
Range(q) == {q[i] : i \in 1..Len(q)}

\* All orders in which a Go `range` over a map with key set S may visit it.
Orders(S) ==
    {o \in [1..Cardinality(S) -> S] : \A i, j \in 1..Cardinality(S) : i # j => o[i] # o[j]}

EmptyMap == [k \in {} |-> {}]

\* delete(m, k)
MapDelete(m, k) == [x \in DOMAIN m \ {k} |-> m[x]]

\* strings.HasPrefix(key, p)
HasPrefix(key, p) == Len(p) <= Len(key) /\ SubSeq(key, 1, Len(p)) = p

\* A non-blocking send on a channel holding queue q takes the default branch.
ChanFull(q) == Len(q) >= ChanCap

\* -------------------------------------------------------------- the events
\* storagepb.Event built from a change: the type and the KeyValue it points to.
Event(type, kv) == [type |-> type, key |-> kv.key, rev |-> kv.rev, nilval |-> kv.nilval]

WatchResponse(id, es, rev) == [WatchID |-> id, Events |-> es, Revision |-> rev]

\* ------------------------------------------------------------ inner store
\* KeyValue produced by a put or a delete at main revision rev; nilval says
\* that its Value is nil.
KeyValue(key, rev, nilval) == [key |-> key, rev |-> rev, nilval |-> nilval]

\* Record of the key bucket: the KeyValue stored under its revision, and the
\* tombstone mark of the revision key.
Record(kv, tomb) == [kv |-> kv, tomb |-> tomb]

\* The key currently exists in the store (its last record is not a tombstone).
Live(b, key) ==
    LET idx == {i \in 1..Len(b) : b[i].kv.key = key}
    IN  idx # {} /\ ~b[Max(idx)].tomb

\* The keys DeleteRange(KeyOrder[lo], end) deletes, in key order.
RECURSIVE RangeKeys(_, _, _)
RangeKeys(b, lo, hi) ==
    IF lo > hi THEN <<>>
    ELSE (IF Live(b, KeyOrder[lo]) THEN <<KeyOrder[lo]>> ELSE <<>>)
         \o RangeKeys(b, lo + 1, hi)

\* A range scan that leaves out the records of its lower bound.
UnsafeRangeAfterMin(b, minRev, maxRev) ==
    SelectSeq(b, LAMBDA r : minRev < r.kv.rev /\ r.kv.rev < maxRev)

\* tx.UnsafeRange(keyBucketName, minBytes, maxBytes, 0): the records with
\* revision in [minRev, maxRev), in revision order.
UnsafeRange(b, minRev, maxRev) ==
    SelectSeq(b, LAMBDA r : minRev <= r.kv.rev /\ r.kv.rev < maxRev)

\* ----------------------------------------------------------- the registry
\* newWatcherToEventMap without the check of line 441: an exact watcher is
\* given the events of every key its key is a prefix of.
RECURSIVE PrefixAppendsNoExact(_, _, _, _)
PrefixAppendsNoExact(sm, w, ev, i) ==
    IF i > Len(ev.key) THEN <<>>
    ELSE LET k == SubSeq(ev.key, 1, i)
             hit == k \in DOMAIN sm /\ w \in sm[k]
         IN  (IF hit THEN <<ev>> ELSE <<>>) \o PrefixAppendsNoExact(sm, w, ev, i + 1)

\* The appends newWatcherToEventMap makes to watcherToEvents[w] while it
\* walks the prefixes key[:i], i = from..len(key), of one event.
RECURSIVE PrefixAppends(_, _, _, _)
PrefixAppends(sm, w, ev, i) ==
    IF i > Len(ev.key) THEN <<>>
    ELSE LET k == SubSeq(ev.key, 1, i)
             hit == /\ k \in DOMAIN sm
                    /\ w \in sm[k]
                    /\ ~(~watchers[w].prefix /\ i # Len(ev.key))
         IN  (IF hit THEN <<ev>> ELSE <<>>) \o PrefixAppends(sm, w, ev, i + 1)

\* newWatcherToEventMap stopping after the first event of the batch.
EventsForFirstOnly(sm, w, evs) ==
    IF evs = <<>> THEN <<>> ELSE PrefixAppends(sm, w, Head(evs), 0)

RECURSIVE EventsFor(_, _, _)
EventsFor(sm, w, evs) ==
    IF evs = <<>> THEN <<>>
    ELSE PrefixAppends(sm, w, Head(evs), 0) \o EventsFor(sm, w, Tail(evs))

\* Every watcher held in some bucket of a synced-shaped map.
InSynced(sm) == UNION {sm[k] : k \in DOMAIN sm}

newWatcherToEventMap(sm, evs) ==
    LET hit == {w \in InSynced(sm) : EventsFor(sm, w, evs) # <<>>}
    IN  [w \in hit |-> EventsFor(sm, w, evs)]

\* unsafeAddWatcher returns an error: the watcher is already under key k.
unsafeAddWatcherErr(sm, k, w) == k \in DOMAIN sm /\ w \in sm[k]

unsafeAddWatcher(sm, k, w) ==
    IF k \in DOMAIN sm THEN [sm EXCEPT ![k] = @ \cup {w}]
    ELSE sm @@ (k :> {w})

\* matchPrefix(key, prefixes)
matchPrefix(key, prefixes) == \E p \in prefixes : HasPrefix(key, p)

\* --------------------------------------------------------------- notify
\* The registry and channel state a notify or sync pass works on.
Reg(sy, un, ws, ch, se, pa) ==
    [synced |-> sy, unsynced |-> un, watchers |-> ws, chan |-> ch, sent |-> se,
     panicked |-> pa]

\* A successful send of the events es for watcher w on its channel.
Send(st, w, es, srev) ==
    [st EXCEPT !.chan[st.watchers[w].ch] = Append(@, WatchResponse(w, es, srev)),
               !.sent[w] = @ \cup Range(es)]

\* A demotion that resumes after rev: w.cur = rev + 1.
DemoteAfterRev(st, w, rev) ==
    [st EXCEPT !.watchers[w].cur = rev + 1,
               !.unsynced = @ \cup {w},
               !.synced[st.watchers[w].key] = @ \ {w}]

\* A demotion that forgets delete(wm, w).
DemoteNoDelete(st, w, rev) ==
    [st EXCEPT !.watchers[w].cur = rev,
               !.unsynced = @ \cup {w}]

\* notify's move of a slow watcher to unsynced.
Demote(st, w, rev) ==
    [st EXCEPT !.watchers[w].cur = rev,
               !.unsynced = @ \cup {w},
               !.synced[st.watchers[w].key] = @ \ {w}]

\* An inner loop of notify whose send waits until the channel has room.
notifyOneWaits(st, w, es, rev, srev) == Send(st, w, es, srev)

\* One iteration of notify's inner loop, for a watcher that has events.
notifyOne(st, w, es, rev, srev) ==
    IF ~ChanFull(st.chan[st.watchers[w].ch]) THEN Send(st, w, es, srev)
    ELSE Demote(st, w, rev)

RECURSIVE notifyLoop(_, _, _, _, _)
notifyLoop(order, we, rev, srev, st) ==
    IF order = <<>> THEN st
    ELSE notifyLoop(Tail(order), we, rev, srev,
                    notifyOne(st, Head(order), we[Head(order)], rev, srev))

\* The orders in which notify's two nested map ranges can visit the watchers
\* that have events: bucket after bucket.
NotifyOrders(we) ==
    {o \in Orders(DOMAIN we) :
        \A i, j, l \in 1..Len(o) :
            (i < j /\ j < l /\ watchers[o[i]].key = watchers[o[l]].key)
                => watchers[o[j]].key = watchers[o[i]].key}

\* notify(rev, evs), visiting the watchers in the given order; srev is s.Rev().
notify(rev, evs, srev, order) ==
    notifyLoop(order, newWatcherToEventMap(synced, evs), rev, srev,
               Reg(synced, unsynced, watchers, chan, sent, FALSE))

\* handle(rev, evs)
handle(rev, evs, srev, order) == notify(rev, evs, srev, order)

\* The registry after handle(rev, evs), for some order of the map ranges.
Handled(rev, evs) ==
    \E order \in NotifyOrders(newWatcherToEventMap(synced, evs)) :
        LET st == handle(rev, evs, rev, order)
        IN  /\ synced' = st.synced
            /\ unsynced' = st.unsynced
            /\ watchers' = st.watchers
            /\ chan' = st.chan
            /\ sent' = st.sent

Op(name, w, rev, evs) == [op |-> name, w |-> w, rev |-> rev, evs |-> evs]

\* ------------------------------------------------------------------ Init
Init ==
    /\ currentRev = InitRev
    /\ compactMainRev = 0
    /\ backend = <<Record(KeyValue(<<1>>, InitRev, FALSE), FALSE)>>
    /\ changes = <<>>
    /\ txnID = 0
    /\ mu = "free"
    /\ watchers = <<>>
    /\ unsynced = {}
    /\ synced = EmptyMap
    /\ chan = [c \in Chans |-> <<>>]
    /\ sent = <<>>
    /\ cancelled = <<>>
    /\ panicked = FALSE
    /\ closing = "open"
    /\ loop = "lock"
    /\ last = Op("init", 0, 0, <<>>)

\* --------------------------------------------------------------- actions
\* Put(key, value, lease).  The inner store's Put commits one change at a new
\* revision, so the len(changes) != 1 panic does not arise.
Put(key) ==
    /\ UNCHANGED <<closing, loop>>
    /\ ~panicked /\ mu = "free" /\ currentRev < MaxRev
    /\ LET rev == currentRev + 1
           kv  == KeyValue(key, rev, FALSE)
           evs == <<Event("PUT", kv)>>
       IN  /\ currentRev' = rev
           /\ backend' = Append(backend, Record(kv, FALSE))
           /\ Handled(rev, evs)
           /\ last' = Op("Put", 0, rev, evs)
    /\ UNCHANGED <<compactMainRev, changes, txnID, mu, cancelled, panicked>>

\* The events DeleteRange synthesizes from the n changes chg.  Every event
\* takes the address of the one loop variable `change` (line 116), which
\* holds the last change when the events are read.
DeleteEvents(chg) == [i \in 1..Len(chg) |-> Event("DELETE", chg[Len(chg)])]

\* DeleteRange(key, end), with key = KeyOrder[lo] and the range reaching up
\* to and including KeyOrder[hi].
DeleteRange(lo, hi) ==
    /\ UNCHANGED <<closing, loop>>
    /\ ~panicked /\ mu = "free" /\ currentRev < MaxRev
    /\ LET keys == RangeKeys(backend, lo, hi)
           n    == Len(keys)
           rev  == IF n = 0 THEN currentRev ELSE currentRev + 1
           chg  == [i \in 1..n |-> KeyValue(keys[i], rev, TRUE)]
           evs  == DeleteEvents(chg)
       IN  /\ currentRev' = rev
           /\ backend' = backend \o [i \in 1..n |-> Record(chg[i], TRUE)]
           /\ IF n = 0
              THEN UNCHANGED <<synced, unsynced, watchers, chan, sent>>
              ELSE Handled(rev, evs)
           /\ last' = Op("DeleteRange", 0, rev, evs)
    /\ UNCHANGED <<compactMainRev, changes, txnID, mu, cancelled, panicked>>

\* TxnBegin(): takes s.mu and keeps it; the store picks the transaction id.
TxnBegin ==
    /\ UNCHANGED <<closing, loop>>
    /\ ~panicked /\ mu = "free" /\ currentRev < MaxRev
    /\ mu' = "txn"
    /\ txnID' = OpenTxnID
    /\ changes' = <<>>
    /\ last' = Op("TxnBegin", 0, 0, <<>>)
    /\ UNCHANGED <<currentRev, compactMainRev, backend, watchers, unsynced,
                   synced, chan, sent, cancelled, panicked>>

\* TxnPut(txnID, key, value, lease) of the embedded store, by the holder of
\* the open transaction: the change is written at revision currentRev + 1.
TxnPut(key, nilval) ==
    /\ UNCHANGED <<closing, loop>>
    /\ ~panicked /\ mu = "txn" /\ Len(changes) < MaxTxnOps
    /\ LET kv == KeyValue(key, currentRev + 1, nilval)
       IN  /\ backend' = Append(backend, Record(kv, FALSE))
           /\ changes' = Append(changes, kv)
    /\ last' = Op("TxnPut", 0, 0, <<>>)
    /\ UNCHANGED <<currentRev, compactMainRev, txnID, mu, watchers, unsynced,
                   synced, chan, sent, cancelled, panicked>>

\* TxnDeleteRange(txnID, key, end) of the embedded store.
TxnDeleteRange(lo, hi) ==
    /\ UNCHANGED <<closing, loop>>
    /\ ~panicked /\ mu = "txn"
    /\ LET keys == RangeKeys(backend, lo, hi)
           n    == Len(keys)
           chg  == [i \in 1..n |-> KeyValue(keys[i], currentRev + 1, TRUE)]
       IN  /\ Len(changes) + n <= MaxTxnOps
           /\ backend' = backend \o [i \in 1..n |-> Record(chg[i], TRUE)]
           /\ changes' = changes \o chg
    /\ last' = Op("TxnDeleteRange", 0, 0, <<>>)
    /\ UNCHANGED <<currentRev, compactMainRev, txnID, mu, watchers, unsynced,
                   synced, chan, sent, cancelled, panicked>>

\* The event TxnEnd builds for one change: the type is chosen by
\* `switch change.Value { case nil: ... }`.
TxnEvent(change) == Event(IF change.nilval THEN "DELETE" ELSE "PUT", change)

\* A TxnEnd that unlocks s.mu on the error return as well.
TxnEndUnlocksOnErr(id) ==
    /\ UNCHANGED <<closing, loop>>
    /\ ~panicked /\ mu = "txn"
    /\ IF id # txnID
       THEN /\ last' = Op("TxnEndErr", 0, 0, <<>>)
            /\ mu' = "free"
            /\ UNCHANGED <<currentRev, changes, txnID, watchers, unsynced,
                           synced, chan, sent>>
       ELSE LET rev == IF changes = <<>> THEN currentRev ELSE currentRev + 1
                evs == [i \in 1..Len(changes) |-> TxnEvent(changes[i])]
            IN  /\ currentRev' = rev
                /\ changes' = <<>>
                /\ txnID' = 0
                /\ mu' = "free"
                /\ IF changes = <<>>
                   THEN UNCHANGED <<synced, unsynced, watchers, chan, sent>>
                   ELSE Handled(rev, evs)
                /\ last' = Op("TxnEnd", 0, rev, evs)
    /\ UNCHANGED <<compactMainRev, backend, cancelled, panicked>>

\* TxnEnd(txnID)
TxnEnd(id) ==
    /\ UNCHANGED <<closing, loop>>
    /\ ~panicked /\ mu = "txn"
    /\ IF id # txnID
       THEN \* s.store.TxnEnd returned ErrTxnIDMismatch: return err
            /\ last' = Op("TxnEndErr", 0, 0, <<>>)
            /\ UNCHANGED <<currentRev, changes, txnID, mu, watchers, unsynced,
                           synced, chan, sent>>
       ELSE LET rev == IF changes = <<>> THEN currentRev ELSE currentRev + 1
                evs == [i \in 1..Len(changes) |-> TxnEvent(changes[i])]
            IN  /\ currentRev' = rev
                /\ changes' = <<>>
                /\ txnID' = 0
                /\ mu' = "free"
                /\ IF changes = <<>>
                   THEN UNCHANGED <<synced, unsynced, watchers, chan, sent>>
                   ELSE Handled(rev, evs)
                /\ last' = Op("TxnEnd", 0, rev, evs)
    /\ UNCHANGED <<compactMainRev, backend, cancelled, panicked>>

\* The watcher watch() allocates.  startRev and regRev (the store's revision
\* at registration) are kept for reference; the code keeps only cur.
Watcher(key, prefix, startRev, ch) ==
    [key |-> key, prefix |-> prefix, cur |-> startRev, ch |-> ch,
     startRev |-> startRev, regRev |-> currentRev]

\* watch(key, prefix, startRev, id, ch)
watch(key, prefix, startRev, ch) ==
    /\ UNCHANGED <<closing, loop>>
    /\ ~panicked /\ mu = "free" /\ Len(watchers) < MaxWatchers
    /\ LET wa == Len(watchers) + 1
       IN  /\ watchers' = Append(watchers, Watcher(key, prefix, startRev, ch))
           /\ cancelled' = Append(cancelled, FALSE)
           /\ sent' = Append(sent, {})
           /\ IF startRev = 0
              THEN /\ synced' = unsafeAddWatcher(synced, key, wa)
                   /\ panicked' = unsafeAddWatcherErr(synced, key, wa)
                   /\ UNCHANGED unsynced
              ELSE /\ unsynced' = unsynced \cup {wa}
                   /\ UNCHANGED <<synced, panicked>>
           /\ last' = Op("watch", wa, 0, <<>>)
    /\ UNCHANGED <<currentRev, compactMainRev, backend, changes, txnID, mu, chan>>

\* A cancelFunc that drops the bucket of its key without looking for wa in it.
cancelSyncedWholeBucket(sm, k, wa) ==
    IF k \in DOMAIN sm THEN MapDelete(sm, k) ELSE sm

\* A cancelFunc that leaves s.synced as it is.
cancelSyncedForgets(sm, k, wa) == sm

\* What the cancelFunc of watcher wa does to s.synced (lines 208-218).
cancelSynced(sm, k, wa) ==
    IF k \in DOMAIN sm /\ wa \in sm[k]
    THEN IF sm[k] \ {wa} = {} THEN MapDelete(sm, k)
         ELSE [sm EXCEPT ![k] = @ \ {wa}]
    ELSE sm

\* The cancelFunc watch() returned for watcher wa.
cancel(wa) ==
    /\ UNCHANGED <<closing, loop>>
    /\ ~panicked /\ mu = "free"
    /\ IF wa \in unsynced
       THEN /\ unsynced' = unsynced \ {wa}
            /\ UNCHANGED synced
       ELSE /\ synced' = cancelSynced(synced, watchers[wa].key, wa)
            /\ UNCHANGED unsynced
    /\ cancelled' = [cancelled EXCEPT ![wa] = TRUE]
    /\ last' = Op(IF cancelled[wa] THEN "cancel again" ELSE "cancel", wa, 0, <<>>)
    /\ UNCHANGED <<currentRev, compactMainRev, backend, changes, txnID, mu,
                   watchers, chan, sent, panicked>>

\* ---------------------------------------------------------- syncWatchers
\* The unsynced watchers the first loop of syncWatchers deletes.
Compacted(un, ws, compactionRev) == {w \in un : ws[w].cur < compactionRev}

\* The first loop panics: some watcher is ahead of the store.
SyncPanics(un, ws, curRev) == \E w \in un : ws[w].cur > curRev

\* keyToUnsynced as the first loop builds it from the watchers it keeps.
KeyToUnsynced(keep, ws) ==
    [k \in {ws[w].key : w \in keep} |-> {w \in keep : ws[w].key = k}]

\* The events the second loop collects from the scanned records.
SyncEvents(keep, ws, b, curRev) ==
    LET keyToUnsynced == KeyToUnsynced(keep, ws)
        prefixes == {ws[w].key : w \in {x \in keep : ws[x].prefix}}
        minRev   == Min({ws[w].cur : w \in keep})
        \* with nothing kept minRev stays math.MaxInt64 and the range is empty
        scanned  == IF keep = {} THEN <<>> ELSE UnsafeRange(b, minRev, curRev + 1)
        relevant == SelectSeq(scanned, LAMBDA r :
                        ~(r.kv.key \notin DOMAIN keyToUnsynced
                          /\ ~matchPrefix(r.kv.key, prefixes)))
    IN  [i \in 1..Len(relevant) |->
            Event(IF relevant[i].tomb THEN "DELETE" ELSE "PUT", relevant[i].kv)]

\* A last loop of syncWatchers that promotes the watcher although its
\* channel is full.
syncOnePromotesFull(st, w, es, srev) ==
    LET k == st.watchers[w].key
    IN  IF ChanFull(st.chan[st.watchers[w].ch])
        THEN [st EXCEPT !.synced = unsafeAddWatcher(@, k, w),
                        !.unsynced = @ \ {w}]
        ELSE [Send(st, w, es, srev) EXCEPT
                 !.synced = unsafeAddWatcher(@, k, w),
                 !.unsynced = @ \ {w}]

\* One iteration of the last loop of syncWatchers.
syncOne(st, w, es, srev) ==
    LET k == st.watchers[w].key
    IN  IF ChanFull(st.chan[st.watchers[w].ch]) THEN st
        ELSE [Send(st, w, es, srev) EXCEPT
                 !.panicked = @ \/ unsafeAddWatcherErr(st.synced, k, w),
                 !.synced = unsafeAddWatcher(@, k, w),
                 !.unsynced = @ \ {w}]

RECURSIVE syncLoop(_, _, _, _)
syncLoop(order, wte, srev, st) ==
    IF order = <<>> THEN st
    ELSE syncLoop(Tail(order), wte, srev,
                  syncOne(st, Head(order), wte[Head(order)], srev))

\* One pass of syncWatchersLoop: s.mu.Lock(); s.syncWatchers(); s.mu.Unlock().
syncWatchers ==
    /\ ~panicked /\ mu = "free" /\ loop = "lock"
    /\ UNCHANGED closing
    /\ IF unsynced = {}
       THEN /\ last' = Op("sync", 0, 0, <<>>)
            /\ UNCHANGED <<watchers, unsynced, synced, chan, sent, panicked>>
       ELSE IF SyncPanics(unsynced, watchers, currentRev)
       THEN /\ panicked' = TRUE
            /\ last' = Op("sync", 0, 0, <<>>)
            /\ UNCHANGED <<watchers, unsynced, synced, chan, sent>>
       ELSE LET keep == unsynced \ Compacted(unsynced, watchers, compactMainRev)
            IN  \E evs \in {SyncEvents(keep, watchers, backend, currentRev)} :
                \E wte \in {newWatcherToEventMap(KeyToUnsynced(keep, watchers), evs)} :
                \E order \in Orders(DOMAIN wte) :
                \E st \in {syncLoop(order, wte, currentRev,
                                    Reg(synced, keep, watchers, chan, sent, FALSE))} :
                      /\ synced' = st.synced
                      /\ unsynced' = st.unsynced
                      /\ watchers' = st.watchers
                      /\ chan' = st.chan
                      /\ sent' = st.sent
                      /\ panicked' = st.panicked
                      /\ last' = Op("sync", 0, 0, evs)
    /\ UNCHANGED <<currentRev, compactMainRev, backend, changes, txnID, mu,
                   cancelled>>

\* One iteration of syncWatchersLoop: the pass under s.mu, then the select.
\* With stopc closed the select returns; otherwise the loop waits for the
\* timer, which has fired already (fired) or not yet.
syncWatchersLoop(fired) ==
    /\ syncWatchers
    /\ loop' = IF closing # "open" THEN "exited"
               ELSE IF fired THEN "lock" ELSE "select"

\* The select of syncWatchersLoop takes its timer case.
LoopWake ==
    /\ ~panicked /\ loop = "select" /\ closing = "open"
    /\ loop' = "lock"
    /\ last' = Op("wake", 0, 0, <<>>)
    /\ UNCHANGED <<currentRev, compactMainRev, backend, changes, txnID, mu,
                   watchers, unsynced, synced, chan, sent, cancelled, panicked,
                   closing>>

\* The select of syncWatchersLoop takes its stopc case: return.
LoopExit ==
    /\ ~panicked /\ loop = "select" /\ closing = "stopping"
    /\ loop' = "exited"
    /\ last' = Op("exit", 0, 0, <<>>)
    /\ UNCHANGED <<currentRev, compactMainRev, backend, changes, txnID, mu,
                   watchers, unsynced, synced, chan, sent, cancelled, panicked,
                   closing>>

\* Close(): close(s.stopc), then s.wg.Wait() blocks.
Close ==
    /\ ~panicked /\ closing = "open"
    /\ closing' = "stopping"
    /\ last' = Op("Close", 0, 0, <<>>)
    /\ UNCHANGED <<currentRev, compactMainRev, backend, changes, txnID, mu,
                   watchers, unsynced, synced, chan, sent, cancelled, panicked,
                   loop>>

\* Close(): s.wg.Wait() returns once the loop has exited; the store closes.
CloseReturn ==
    /\ ~panicked /\ closing = "stopping" /\ loop = "exited"
    /\ closing' = "closed"
    /\ last' = Op("CloseReturn", 0, 0, <<>>)
    /\ UNCHANGED <<currentRev, compactMainRev, backend, changes, txnID, mu,
                   watchers, unsynced, synced, chan, sent, cancelled, panicked,
                   loop>>

\* The reader of a stream takes one response from its channel.
Recv(c) ==
    /\ UNCHANGED <<closing, loop>>
    /\ ~panicked /\ chan[c] # <<>>
    /\ chan' = [chan EXCEPT ![c] = Tail(@)]
    /\ last' = Op("recv", 0, 0, <<>>)
    /\ UNCHANGED <<currentRev, compactMainRev, backend, changes, txnID, mu,
                   watchers, unsynced, synced, sent, cancelled, panicked>>

\* Compaction of the inner store at its current revision raises the
\* compaction floor.
Compact ==
    /\ UNCHANGED <<closing, loop>>
    /\ ~panicked /\ mu = "free"
    /\ compactMainRev < currentRev
    /\ compactMainRev' = currentRev
    /\ last' = Op("compact", 0, 0, <<>>)
    /\ UNCHANGED <<currentRev, backend, changes, txnID, mu, watchers, unsynced,
                   synced, chan, sent, cancelled, panicked>>

\* The channels a new watcher may be given: one already in use, or the next
\* unused one (the streams are interchangeable).
FreshChans ==
    {c \in Chans : c <= 1 + Cardinality({watchers[w].ch : w \in 1..Len(watchers)})}

\* The start revisions a new watcher may ask for: from now, from the first
\* revision of the store's history, from the revision after the current one.
StartRevs == {0, InitRev, currentRev + 1}

\* The one range DeleteRange is called with: from the first key to the last.
WholeRange == <<1, Len(KeyOrder)>>

\* The complete system: every operation, with every input.
Next ==
    \/ \E key \in WriteKeys : Put(key)
    \/ DeleteRange(WholeRange[1], WholeRange[2])
    \/ TxnBegin
    \/ \E key \in WriteKeys, nilval \in BOOLEAN : TxnPut(key, nilval)
    \/ TxnDeleteRange(WholeRange[1], WholeRange[2])
    \/ \E id \in TxnIDs : TxnEnd(id)
    \/ \E t \in WatchTargets, startRev \in StartRevs, ch \in FreshChans :
          watch(t[1], t[2], startRev, ch)
    \/ \E wa \in 1..Len(watchers) : cancel(wa)
    \/ \E fired \in BOOLEAN : syncWatchersLoop(fired)
    \/ LoopWake
    \/ LoopExit
    \/ Close
    \/ CloseReturn
    \/ \E c \in Chans : Recv(c)
    \/ Compact

Spec == Init /\ [][Next]_vars

\* The sub-systems the properties are checked under.  Each restricts Next to
\* part of the environment, so each of its behaviours is a behaviour of Spec.

\* Writers, watchers, their readers and the sync loop.
NextCore ==
    \/ \E key \in WriteKeys : Put(key)
    \/ DeleteRange(WholeRange[1], WholeRange[2])
    \/ \E t \in WatchTargets, startRev \in StartRevs, ch \in FreshChans :
          watch(t[1], t[2], startRev, ch)
    \/ syncWatchersLoop(TRUE)
    \/ \E c \in Chans : Recv(c)

SpecCore == Init /\ [][NextCore]_vars

\* The same, with compaction of the store.
NextCompact ==
    \/ \E key \in WriteKeys : Put(key)
    \/ DeleteRange(WholeRange[1], WholeRange[2])
    \/ \E t \in WatchTargets, startRev \in StartRevs, ch \in FreshChans :
          watch(t[1], t[2], startRev, ch)
    \/ syncWatchersLoop(TRUE)
    \/ \E c \in Chans : Recv(c)
    \/ Compact

SpecCompact == Init /\ [][NextCompact]_vars

\* The watch targets of the sub-systems about the registry alone: the empty
\* prefix and one exact key.
RegTargets == {<< <<>>, TRUE >>, << <<1>>, FALSE >>}

\* Puts, watchers that start from now or from the store's history, their
\* cancel handles, compaction.
NextCancel ==
    \/ \E key \in WriteKeys : Put(key)
    \/ \E t \in RegTargets, startRev \in {0, InitRev}, ch \in FreshChans :
          watch(t[1], t[2], startRev, ch)
    \/ \E wa \in 1..Len(watchers) : cancel(wa)
    \/ syncWatchersLoop(TRUE)
    \/ \E c \in Chans : Recv(c)
    \/ Compact

SpecCancel == Init /\ [][NextCancel]_vars

\* Every mutating operation; a transaction is the first commit of a run and
\* its puts carry values.
NextTxn ==
    \/ \E key \in WriteKeys : Put(key)
    \/ DeleteRange(WholeRange[1], WholeRange[2])
    \/ currentRev = InitRev /\ TxnBegin
    \/ \E key \in WriteKeys : TxnPut(key, FALSE)
    \/ TxnDeleteRange(WholeRange[1], WholeRange[2])
    \/ \E id \in TxnIDs : TxnEnd(id)
    \/ \E t \in WatchTargets, startRev \in {0, InitRev}, ch \in FreshChans :
          watch(t[1], t[2], startRev, ch)
    \/ syncWatchersLoop(TRUE)
    \/ \E c \in Chans : Recv(c)

SpecTxn == Init /\ [][NextTxn]_vars

\* Every operation that changes the registry; a transaction is the first
\* commit of a run and is made of puts.
NextReg ==
    \/ \E key \in WriteKeys : Put(key)
    \/ DeleteRange(WholeRange[1], WholeRange[2])
    \/ currentRev = InitRev /\ TxnBegin
    \/ \E key \in WriteKeys : TxnPut(key, FALSE)
    \/ \E id \in TxnIDs : TxnEnd(id)
    \/ \E t \in RegTargets, startRev \in {0, InitRev}, ch \in FreshChans :
          watch(t[1], t[2], startRev, ch)
    \/ \E wa \in 1..Len(watchers) : cancel(wa)
    \/ syncWatchersLoop(TRUE)
    \/ \E c \in Chans : Recv(c)

SpecReg == Init /\ [][NextReg]_vars

\* Writers, watchers from now or from the store's history, and the two
\* goroutines whose progress the runtime guarantees: the sync loop, which
\* gets s.mu whenever it is free, and the readers of the streams, here
\* taken to keep draining.
NextLive ==
    \/ \E key \in WriteKeys : Put(key)
    \/ DeleteRange(WholeRange[1], WholeRange[2])
    \/ \E t \in WatchTargets, startRev \in {0, InitRev}, ch \in FreshChans :
          watch(t[1], t[2], startRev, ch)
    \/ syncWatchersLoop(TRUE)
    \/ \E c \in Chans : Recv(c)

SpecLive ==
    /\ Init /\ [][NextLive]_vars
    /\ WF_vars(syncWatchersLoop(TRUE))
    /\ \A c \in Chans : WF_vars(Recv(c))

\* Close() against writers, a transaction, watchers and the sync loop.  The
\* runtime schedules the sync loop's goroutine and lets Close() return once
\* the loop is gone; whether and when a client ends its transaction is up to
\* the client.
NextClose ==
    \/ \E key \in WriteKeys : Put(key)
    \/ currentRev = InitRev /\ TxnBegin
    \/ \E key \in WriteKeys : TxnPut(key, FALSE)
    \/ \E id \in TxnIDs : TxnEnd(id)
    \/ \E t \in RegTargets, startRev \in {0, InitRev}, ch \in FreshChans :
          watch(t[1], t[2], startRev, ch)
    \/ \E fired \in BOOLEAN : syncWatchersLoop(fired)
    \/ LoopWake
    \/ LoopExit
    \/ Close
    \/ CloseReturn
    \/ \E c \in Chans : Recv(c)

SpecClose ==
    /\ Init /\ [][NextClose]_vars
    /\ WF_vars(\E fired \in BOOLEAN : syncWatchersLoop(fired))
    /\ WF_vars(LoopWake)
    /\ WF_vars(LoopExit)
    /\ WF_vars(CloseReturn)

\* Transactions whose puts may carry a nil value, against watchers and the
\* sync loop.
NextNil ==
    \/ \E key \in WriteKeys : Put(key)
    \/ currentRev = InitRev /\ TxnBegin
    \/ \E key \in WriteKeys, nilval \in BOOLEAN : TxnPut(key, nilval)
    \/ TxnDeleteRange(WholeRange[1], WholeRange[2])
    \/ \E id \in TxnIDs : TxnEnd(id)
    \/ \E t \in WatchTargets, startRev \in {0, InitRev}, ch \in FreshChans :
          watch(t[1], t[2], startRev, ch)
    \/ syncWatchersLoop(TRUE)
    \/ \E c \in Chans : Recv(c)

SpecNil == Init /\ [][NextNil]_vars

\* ------------------------------------------------------------ properties
\* The matching relation of the watch API: the key itself, or any key the
\* watched key is a byte prefix of when the watcher is a prefix watcher.
Matches(w, key) ==
    \/ key = watchers[w].key
    \/ watchers[w].prefix /\ HasPrefix(key, watchers[w].key)

\* The events of a batch that watcher w matches, in the order of the batch.
MatchEvents(w, evs) == SelectSeq(evs, LAMBDA e : Matches(w, e.key))

\* The responses a step appends to channel c.
NewResponses(c) ==
    IF Len(chan'[c]) > Len(chan[c])
    THEN SubSeq(chan'[c], Len(chan[c]) + 1, Len(chan'[c]))
    ELSE <<>>

\* The responses a step enqueues for watcher w.
NewFor(w) == SelectSeq(NewResponses(watchers[w].ch), LAMBDA r : r.WatchID = w)

\* The step is a mutating operation that hands a non-empty batch to notify.
HotStep == last'.op \in {"Put", "DeleteRange", "TxnEnd"} /\ last'.evs # <<>>

\* The state follows a mutating operation that notified.
AfterHot == last.op \in {"Put", "DeleteRange", "TxnEnd"} /\ last.evs # <<>>

\* The lowest revision watcher w may be delivered: its start revision, or the
\* revision after the one the store was at when it registered from "now".
Floor(w) ==
    IF watchers[w].startRev > 0 THEN watchers[w].startRev
    ELSE watchers[w].regRev + 1

\* C1: per-watcher ordering.  Whenever a response is enqueued for a watcher,
\* every event revision in every response enqueued for it earlier is <= every
\* event revision in the new one.
C1_Ordering ==
    [][\A w \in 1..Len(watchers) : \A i \in 1..Len(NewFor(w)) :
          \A e \in Range(NewFor(w)[i].Events) : \A e0 \in sent[w] :
              e0.rev <= e.rev]_vars

\* C2: lower bound on delivered revisions.  No watcher is ever delivered an
\* event below its start revision (startRev > 0) or at or below the store's
\* revision at its registration (startRev = 0).
C2_LowerBound ==
    \A w \in 1..Len(watchers) : \A e \in sent[w] : e.rev >= Floor(w)

\* (a) of C3: one response with exactly the watcher's matching events of the
\* batch, at the operation's revision; the watcher stays synced.
Delivered(w) ==
    /\ Len(NewFor(w)) = 1
    /\ NewFor(w)[1].Events = MatchEvents(w, last'.evs)
    /\ NewFor(w)[1].Revision = currentRev'
    /\ watchers[w].key \in DOMAIN synced' /\ w \in synced'[watchers[w].key]
    /\ w \notin unsynced'

\* (b) of C3: nothing enqueued; the watcher left synced for unsynced with
\* cur = the operation's revision.
Demoted(w) ==
    /\ NewFor(w) = <<>>
    /\ w \notin InSynced(synced')
    /\ w \in unsynced'
    /\ watchers'[w].cur = currentRev'

\* C3: hot-path deliver-or-demote.  In every mutating operation that hands
\* events E to the notifier at revision r, each watcher that is synced and
\* matches an event of E ends the operation either delivered (a) or demoted
\* (b), and not both.
C3_DeliverOrDemote ==
    [][HotStep =>
          \A w \in InSynced(synced) :
              MatchEvents(w, last'.evs) # <<>> =>
                  /\ Delivered(w) \/ Demoted(w)
                  /\ ~(Delivered(w) /\ Demoted(w))]_vars

\* A mutating operation delivered to one watcher and demoted another.
C3_Witness ==
    /\ AfterHot
    /\ \E w1 \in unsynced, w2 \in InSynced(synced) :
          /\ watchers[w1].cur = last.rev
          /\ \E r \in Range(chan[watchers[w2].ch]) :
                r.WatchID = w2 /\ r.Events = MatchEvents(w2, last.evs)

\* What a response r enqueued for a watcher of the empty prefix must hold:
\* from notify, the whole batch; from a sync pass, every record of the store
\* from the watcher's revision on.
EveryKey(w, r) ==
    IF last'.op = "sync"
    THEN \A i \in 1..Len(backend) :
            (watchers[w].cur <= backend[i].kv.rev /\ backend[i].kv.rev <= currentRev)
                => \E e \in Range(r.Events) :
                      e.key = backend[i].kv.key /\ e.rev = backend[i].kv.rev
    ELSE r.Events = last'.evs

\* C4: matching soundness.  Every event enqueued for a watcher, by notify or
\* by a sync pass, is for the watcher's key or, for a prefix watcher, for a
\* key that has the watcher's key as a prefix; so an exact watcher gets no
\* event of a key that merely extends its key.  A response for a prefix
\* watcher on the empty key carries the events of every key.
C4_MatchingSoundness ==
    [][\A w \in 1..Len(watchers) : \A i \in 1..Len(NewFor(w)) :
          /\ \A e \in Range(NewFor(w)[i].Events) : Matches(w, e.key)
          /\ (watchers[w].key = <<>> /\ watchers[w].prefix)
                => EveryKey(w, NewFor(w)[i])]_vars

\* A transaction wrote a key and an extension of it; an exact watcher of the
\* key got a response for it that leaves the extension's event out.
C4_Witness ==
    /\ last.op = "TxnEnd"
    /\ \E c \in Chans : \E r \in Range(chan[c]) :
          /\ ~watchers[r.WatchID].prefix
          /\ r.Revision = last.rev
          /\ r.Events # <<>>
          /\ \E e \in Range(last.evs) :
                e.key # watchers[r.WatchID].key /\ HasPrefix(e.key, watchers[r.WatchID].key)

\* C5: partition exclusivity.  Whenever s.mu is not held, no watcher is in
\* unsynced and in a synced bucket at once, and a synced watcher is only in
\* the bucket of its own key.
C5_PartitionExclusive ==
    mu = "free" =>
        /\ unsynced \cap InSynced(synced) = {}
        /\ \A k \in DOMAIN synced : \A w \in synced[k] : watchers[w].key = k

\* A watcher that registered as synced has been demoted while one that
\* registered as unsynced has been promoted.
C5_Witness ==
    /\ mu = "free"
    /\ \E w1 \in unsynced, w2 \in InSynced(synced) :
          watchers[w1].startRev = 0 /\ watchers[w2].startRev # 0

\* C6: bucket pruning.  Whenever s.mu is not held, every key present in
\* synced has at least one watcher in its bucket.
C6_BucketPruned ==
    mu = "free" => \A k \in DOMAIN synced : synced[k] # {}

\* C7: compacted eviction is signalled.  A sync pass that finds an unsynced
\* watcher below the compaction floor removes it from unsynced and enqueues
\* a response for it on its channel.
C7_EvictionSignalled ==
    [][(last'.op = "sync" /\ ~panicked') =>
          \A w \in Compacted(unsynced, watchers, compactMainRev) :
              w \notin unsynced' /\ NewFor(w) # <<>>]_vars

\* C8: startRev = currentRev + 1 is valid.  No sync pass aborts while a
\* watcher registered with the revision after the store's is waiting for
\* that revision.
C8_NextRevValid ==
    (\E w \in unsynced :
        /\ watchers[w].startRev = watchers[w].regRev + 1
        /\ watchers[w].cur > currentRev)
    => ~panicked

\* The watcher of a cancel step is in neither partition before the step.
Gone(w) == w \notin unsynced /\ w \notin InSynced(synced)

\* C9: cancel is idempotent and total.  A cancel handle removes its watcher,
\* and nothing else, from the partition that holds it; run a second time,
\* or for a watcher the registry no longer holds, it leaves synced and
\* unsynced as they were.
C9_CancelIdempotent ==
    [][last'.op \in {"cancel", "cancel again"} =>
          LET w == last'.w
          IN  /\ w \notin unsynced' /\ w \notin InSynced(synced')
              /\ unsynced' = unsynced \ {w}
              /\ InSynced(synced') = InSynced(synced) \ {w}
              /\ (cancelled[w] \/ Gone(w)) =>
                    (synced' = synced /\ unsynced' = unsynced)]_vars

\* A watcher that was demoted after registering had its handle run twice,
\* while the other watcher is still registered.
C9_Witness ==
    /\ last.op = "cancel again"
    /\ watchers[last.w].startRev = 0
    /\ watchers[last.w].cur # 0
    /\ unsynced \cup InSynced(synced) # {}

\* The changes of the open transaction that watcher w matches, as
\* <<key, revision>> pairs in the order the store made them.
MatchChanges(w) ==
    LET m == SelectSeq(changes, LAMBDA kv : Matches(w, kv.key))
    IN  [i \in 1..Len(m) |-> <<m[i].key, m[i].rev>>]

\* C10: transaction batching.  While a transaction is open nothing is
\* enqueued.  At a successful TxnEnd with changes every watcher gets at most
\* one response; a synced watcher matching a change is demoted without a
\* response or gets one response carrying all its matching changes in the
\* store's order, every event and the response at the one commit revision;
\* any other watcher gets no response.
C10_TxnBatching ==
    [][/\ (mu = "txn" /\ mu' = "txn") =>
            /\ \A c \in Chans : NewResponses(c) = <<>>
            /\ sent' = sent
       /\ (mu = "txn" /\ mu' = "free" /\ changes # <<>>) =>
            /\ currentRev' = currentRev + 1
            /\ \A w \in 1..Len(watchers) :
                 /\ Len(NewFor(w)) <= 1
                 /\ IF w \in InSynced(synced) /\ MatchChanges(w) # <<>>
                    THEN \/ NewFor(w) = <<>> /\ w \in unsynced'
                         \/ /\ Len(NewFor(w)) = 1
                            /\ LET r == NewFor(w)[1]
                               IN  /\ r.Revision = currentRev'
                                   /\ [i \in 1..Len(r.Events) |->
                                          <<r.Events[i].key, r.Events[i].rev>>]
                                      = MatchChanges(w)
                                   /\ \A e \in Range(r.Events) : e.rev = currentRev'
                    ELSE NewFor(w) = <<>>]_vars

\* A transaction of two changes ended and a watcher has both in one response.
C10_Witness ==
    /\ last.op = "TxnEnd"
    /\ Len(last.evs) = 2
    /\ \E c \in Chans : \E r \in Range(chan[c]) :
          r.Revision = last.rev /\ Len(r.Events) = 2 /\ r.Events = last.evs

\* C11: transaction exclusion.  s.mu is taken only by TxnBegin and stays
\* held until a TxnEnd without error: in between no Put, DeleteRange, watch,
\* cancel or sync pass takes effect (the registry, the watchers and the
\* revision stay as they are and nothing is enqueued).  A TxnEnd that
\* returns the error keeps the mutex and notifies nobody; a TxnEnd that
\* succeeds releases it, with or without changes.
C11_TxnExclusion ==
    [][/\ (mu = "free" /\ mu' = "txn") => last'.op = "TxnBegin"
       /\ mu = "txn" =>
            /\ last'.op \notin {"Put", "DeleteRange", "watch", "cancel",
                                "cancel again", "sync", "TxnBegin"}
            /\ mu' = "txn" =>
                 /\ <<synced, unsynced, watchers, currentRev>>'
                      = <<synced, unsynced, watchers, currentRev>>
                 /\ \A c \in Chans : NewResponses(c) = <<>>
            /\ last'.op = "TxnEndErr" => mu' = "txn"
            /\ last'.op = "TxnEnd" => mu' = "free"
            /\ mu' = "free" => last'.op = "TxnEnd"]_vars

\* A TxnEnd with the wrong id returned its error while the transaction has
\* changes and a watcher waits in unsynced for the sync loop.
C11_Witness ==
    /\ last.op = "TxnEndErr"
    /\ mu = "txn"
    /\ changes # <<>>
    /\ unsynced # {}

\* C12: writers never block on slow consumers.  A Put, a DeleteRange, a
\* successful TxnEnd and a sync pass each run to their end and leave s.mu
\* free whatever the channels hold: none puts anything into a channel that
\* was full when it started, no channel ever holds more than its capacity,
\* and a matching synced watcher whose channel is full is passed over by
\* demoting it.
C12_WritersNeverBlock ==
    [][last'.op \in {"Put", "DeleteRange", "TxnEnd", "sync"} =>
          /\ mu' = "free"
          /\ \A c \in Chans :
               /\ ChanFull(chan[c]) => chan'[c] = chan[c]
               /\ Len(chan'[c]) <= ChanCap
          /\ HotStep =>
               \A w \in InSynced(synced) :
                   (MatchEvents(w, last'.evs) # <<>> /\ ChanFull(chan[watchers[w].ch]))
                       => w \in unsynced']_vars

\* A write found the channel of a matching synced watcher full and completed:
\* the watcher is demoted at the write's revision, the channel is still full.
C12_Witness ==
    /\ AfterHot
    /\ mu = "free"
    /\ \E w \in unsynced :
          watchers[w].cur = last.rev /\ ChanFull(chan[watchers[w].ch])

\* The committed changes watcher w asked for at registration: those of its
\* keys with revision from startRev up to the revision the store was at.
Owed(w) ==
    {<<backend[i].kv.key, backend[i].kv.rev>> : i \in
        {j \in 1..Len(backend) :
            /\ Matches(w, backend[j].kv.key)
            /\ watchers[w].startRev <= backend[j].kv.rev
            /\ backend[j].kv.rev <= watchers[w].regRev}}

\* Watcher w is registered on the store's history and its keys have events
\* in the range it asked for.
Historical(w) ==
    /\ w <= Len(watchers)
    /\ watchers[w].startRev > 0
    /\ watchers[w].startRev <= watchers[w].regRev
    /\ Owed(w) # {}

\* Watcher w is synced and has been sent everything it asked for.
CaughtUp(w) ==
    /\ w \in InSynced(synced)
    /\ Owed(w) \subseteq {<<e.key, e.rev>> : e \in sent[w]}

C14_CloseTerminates ==
    /\ [][loop = "exited" => (loop' = "exited" /\ last'.op # "sync")]_vars
    /\ (closing = "stopping") ~> (loop = "exited" /\ closing = "closed")

\* C15: no duplicate delivery.  No response enqueued for a watcher carries
\* an event (key and revision) that an earlier response for the same
\* watcher carried already.
C15_NoDuplicate ==
    [][\A w \in 1..Len(watchers) : \A i \in 1..Len(NewFor(w)) :
          \A e \in Range(NewFor(w)[i].Events) :
              ~\E e0 \in sent[w] : e0.key = e.key /\ e0.rev = e.rev]_vars

\* C16: DeleteRange event synthesis.  A DeleteRange that deletes n >= 1 keys
\* hands the notifier n DELETE events, the i-th for the i-th deleted key
\* with its record; one that deletes nothing notifies nobody and leaves
\* synced and unsynced alone.
C16_DeleteRangeEvents ==
    [][last'.op = "DeleteRange" =>
          LET n == Len(backend') - Len(backend)
          IN  /\ Len(last'.evs) = n
              /\ \A i \in 1..n :
                   /\ last'.evs[i].type = "DELETE"
                   /\ last'.evs[i].key = backend'[Len(backend) + i].kv.key
                   /\ last'.evs[i].rev = backend'[Len(backend) + i].kv.rev
              /\ \A i, j \in 1..n : i # j => last'.evs[i].key # last'.evs[j].key
              /\ n = 0 =>
                   /\ synced' = synced /\ unsynced' = unsynced
                   /\ \A c \in Chans : NewResponses(c) = <<>>]_vars

\* C17: the event type is decided by the operation.  On every delivery path
\* each event enqueued for a watcher has the type of a change the store
\* recorded for that key at that revision: DELETE for a tombstone, PUT for
\* a put, whatever the put's value.
C17_EventType ==
    [][\A w \in 1..Len(watchers) : \A n \in 1..Len(NewFor(w)) :
          \A e \in Range(NewFor(w)[n].Events) :
              \E i \in 1..Len(backend') :
                  /\ backend'[i].kv.key = e.key
                  /\ backend'[i].kv.rev = e.rev
                  /\ backend'[i].tomb = (e.type = "DELETE")]_vars

\* An unsynced watcher the pass evicts: it is below the compaction floor.
SyncEvicted(w) ==
    /\ watchers[w].cur < compactMainRev
    /\ w \notin unsynced' /\ w \notin InSynced(synced')
    /\ NewFor(w) = <<>>

\* An unsynced watcher the pass promotes: one response went into its
\* channel, which had room, and it moved to the bucket of its key.
SyncPromoted(w) ==
    /\ watchers[w].cur >= compactMainRev
    /\ ~ChanFull(chan[watchers[w].ch])
    /\ Len(NewFor(w)) = 1
    /\ w \notin unsynced'
    /\ watchers[w].key \in DOMAIN synced' /\ w \in synced'[watchers[w].key]

\* An unsynced watcher the pass leaves where it is.
SyncStays(w) ==
    /\ watchers[w].cur >= compactMainRev
    /\ w \in unsynced' /\ w \notin InSynced(synced')
    /\ NewFor(w) = <<>>

\* No record of the range the pass scans is for a key of watcher w.
NoRelevant(w) ==
    LET keep == {x \in unsynced : watchers[x].cur >= compactMainRev}
    IN  keep # {} =>
          ~\E i \in 1..Len(backend) :
               /\ Matches(w, backend[i].kv.key)
               /\ backend[i].kv.rev >= Min({watchers[x].cur : x \in keep})
               /\ backend[i].kv.rev <= currentRev

\* C18: sync-pass frame.  A sync pass changes no watcher's cur, touches no
\* watcher that is not unsynced, and does exactly one thing to each
\* unsynced watcher: evicts it (below the compaction floor), promotes it
\* (its send succeeded), or leaves it in unsynced with nothing enqueued;
\* a watcher with no relevant event in the scanned range stays.  With
\* unsynced empty the pass changes nothing.
C18_SyncFrame ==
    [][(last'.op = "sync" /\ ~panicked') =>
          /\ watchers' = watchers
          /\ \A k \in DOMAIN synced : k \in DOMAIN synced' /\ synced[k] \subseteq synced'[k]
          /\ \A w \in (1..Len(watchers)) \ unsynced :
               /\ NewFor(w) = <<>>
               /\ w \notin unsynced'
               /\ (w \in InSynced(synced')) = (w \in InSynced(synced))
          /\ \A w \in unsynced :
               /\ SyncEvicted(w) \/ SyncPromoted(w) \/ SyncStays(w)
               /\ (watchers[w].cur >= compactMainRev /\ NoRelevant(w)) => SyncStays(w)
          /\ unsynced = {} =>
               (synced' = synced /\ unsynced' = unsynced /\ chan' = chan)]_vars

\* A pass promoted one watcher and left another, which has events in the
\* scanned range too, in unsynced because the channel was full by then.
C18_Witness ==
    /\ last.op = "sync"
    /\ ~panicked
    /\ \E w2 \in unsynced :
         /\ MatchEvents(w2, last.evs) # <<>>
         /\ \E r \in Range(chan[watchers[w2].ch]) :
               /\ r.WatchID # w2
               /\ r.WatchID \in InSynced(synced)
               /\ r.Events = MatchEvents(r.WatchID, last.evs)

\* The committed changes watcher w is owed by now: those of its keys from
\* its start point up to the store's current revision.
OwedNow(w) ==
    {<<backend[i].kv.key, backend[i].kv.rev>> : i \in
        {j \in 1..Len(backend) :
            /\ Matches(w, backend[j].kv.key)
            /\ Floor(w) <= backend[j].kv.rev
            /\ backend[j].kv.rev <= currentRev}}

\* C19: synced means caught up.  Whenever the watchable mutex is free, every
\* committed change that matches a synced watcher, from the watcher's start
\* point up to currentRev, has been enqueued on the watcher's channel.
C19_SyncedCaughtUp ==
    mu = "free" =>
        \A w \in InSynced(synced) :
            OwedNow(w) \subseteq {<<e.key, e.rev>> : e \in sent[w]}

\* C20: cancel is effective.  Once the cancel handle of a watcher has
\* returned, no Put, DeleteRange, TxnEnd or sync pass enqueues a response
\* with the watcher's id, and the watcher is in neither synced nor unsynced
\* from then on.
C20_CancelEffective ==
    [][/\ \A w \in 1..Len(watchers) : cancelled[w] => NewFor(w) = <<>>
       /\ \A w \in 1..Len(watchers') :
             cancelled'[w] => (w \notin unsynced' /\ w \notin InSynced(synced'))]_vars

\* A mutating operation or a sync pass has just handled events of the keys of
\* a cancelled watcher, which it would have been sent had it stayed.
C20_Witness ==
    /\ last.op \in {"Put", "DeleteRange", "TxnEnd", "sync"}
    /\ \E w \in 1..Len(watchers) :
          /\ cancelled[w]
          /\ \E n \in 1..Len(last.evs) :
                Matches(w, last.evs[n].key) /\ last.evs[n].rev >= Floor(w)
====
